---------------------------- MODULE Spec2Model ----------------------------
(***************************************************************************)
(* A model of the SigV4 authenticator plugin for gocql (package sigv4 and  *)
(* its internal signing engine).                                           *)
(*                                                                         *)
(* Representation.  A Go string and a []byte are both byte sequences; here *)
(* a byte sequence is a TLA+ sequence whose elements are one-character     *)
(* strings, so that prefix tests, splitting, escaping and sorting are      *)
(* computed byte by byte as the library functions compute them.  The zero  *)
(* byte is the element NUL.  SHA-256 and HMAC-SHA256 live outside the      *)
(* repository: a digest is kept symbolic, as ONE element that names the    *)
(* function and its arguments (an injective stand-in for the 32 bytes), and*)
(* its hex encoding is ONE element standing for the 64 hex digits.         *)
(* A value that may be nil in Go (a []byte, an error, an interface) is a   *)
(* record with an isNil field.                                             *)
(***************************************************************************)
EXTENDS Integers, Sequences, FiniteSets, TLC

VARIABLES environ, target, signers, provider, clock, writes, last

vars == <<environ, target, signers, provider, clock, writes, last>>

-----------------------------------------------------------------------------
(* Byte strings *)

\* Str("abc") is the byte sequence <<"a", "b", "c">> of a Go string literal.
Str(s) == [i \in 1..Len(s) |-> SubSeq(s, i, i)]

\* The byte 0x00 of "SigV4\000\000".
NUL == "\\0"

Digits == "0123456789"
UpperLetters == "ABCDEFGHIJKLMNOPQRSTUVWXYZ"
LowerLetters == "abcdefghijklmnopqrstuvwxyz"
HexUpper == "0123456789ABCDEF"

CharsOf(s) == {SubSeq(s, i, i) : i \in 1..Len(s)}

DigitChars == CharsOf(Digits)
UpperChars == CharsOf(UpperLetters)
LowerChars == CharsOf(LowerLetters)

PosIn(c, s) == CHOOSE i \in 1..Len(s) : SubSeq(s, i, i) = c

\* The punctuation the program's strings use, with its ASCII code.
PunctCode ==
    (NUL :> 0) @@ ("\n" :> 10) @@ (" " :> 32) @@ ("%" :> 37) @@ ("&" :> 38)
    @@ ("+" :> 43) @@ ("," :> 44) @@ ("-" :> 45) @@ ("." :> 46) @@ ("/" :> 47)
    @@ (":" :> 58) @@ ("=" :> 61) @@ ("_" :> 95) @@ ("~" :> 126)

\* The ASCII code of a byte (the order sort.Strings compares by).
ByteCode(c) ==
    IF c \in DigitChars THEN 47 + PosIn(c, Digits)
    ELSE IF c \in UpperChars THEN 64 + PosIn(c, UpperLetters)
    ELSE IF c \in LowerChars THEN 96 + PosIn(c, LowerLetters)
    ELSE PunctCode[c]

\* strings.HasPrefix(s, prefix)
HasPrefix(s, prefix) ==
    /\ Len(s) >= Len(prefix)
    /\ SubSeq(s, 1, Len(prefix)) = prefix

\* strings.HasSuffix(s, suffix)
HasSuffix(s, suffix) ==
    /\ Len(s) >= Len(suffix)
    /\ SubSeq(s, Len(s) - Len(suffix) + 1, Len(s)) = suffix

\* strings.Index(s, sep), 1-based; 0 when sep does not occur in s.
Index(s, sep) ==
    LET hits == {i \in 1..(Len(s) - Len(sep) + 1) :
                    SubSeq(s, i, i + Len(sep) - 1) = sep}
    IN  IF hits = {} THEN 0
        ELSE CHOOSE i \in hits : \A j \in hits : i <= j

\* strings.Count(s, sep) for a sep that cannot overlap itself.
Count(s, sep) ==
    Cardinality({i \in 1..(Len(s) - Len(sep) + 1) :
                    SubSeq(s, i, i + Len(sep) - 1) = sep})

\* strings.Split(s, sep) for a non-empty sep: the pieces of s between the
\* successive occurrences of sep, Count(s, sep) + 1 of them.
RECURSIVE Split(_, _)
Split(s, sep) ==
    LET i == Index(s, sep)
    IN  IF i = 0 THEN <<s>>
        ELSE <<SubSeq(s, 1, i - 1)>>
                \o Split(SubSeq(s, i + Len(sep), Len(s)), sep)

\* strings.Join(a, sep)
RECURSIVE Join(_, _)
Join(a, sep) ==
    IF Len(a) = 0 THEN <<>>
    ELSE IF Len(a) = 1 THEN a[1]
    ELSE a[1] \o sep \o Join(Tail(a), sep)

\* Lexicographic byte order of two strings ("<" of Go strings).
RECURSIVE StrLess(_, _)
StrLess(a, b) ==
    IF Len(b) = 0 THEN FALSE
    ELSE IF Len(a) = 0 THEN TRUE
    ELSE IF a[1] = b[1] THEN StrLess(Tail(a), Tail(b))
    ELSE ByteCode(a[1]) < ByteCode(b[1])

\* sort.Strings(a): insertion of each string at its place.
RECURSIVE InsertSorted(_, _)
InsertSorted(x, sorted) ==
    IF Len(sorted) = 0 THEN <<x>>
    ELSE IF StrLess(x, sorted[1]) THEN <<x>> \o sorted
    ELSE <<sorted[1]>> \o InsertSorted(x, Tail(sorted))

RECURSIVE SortStrings(_)
SortStrings(a) ==
    IF Len(a) = 0 THEN <<>>
    ELSE InsertSorted(a[1], SortStrings(Tail(a)))

\* The bytes url.QueryEscape leaves alone: letters, digits, '-', '_', '.', '~'.
Unreserved == DigitChars \cup UpperChars \cup LowerChars \cup {"-", "_", ".", "~"}

HexDigitUpper(n) == SubSeq(HexUpper, n + 1, n + 1)

\* The concatenation of the byte strings ss[1], ..., ss[Len(ss)].
RECURSIVE ConcatAll(_)
ConcatAll(ss) ==
    IF Len(ss) = 0 THEN <<>>
    ELSE IF Len(ss) = 1 THEN ss[1]
    ELSE LET h == Len(ss) \div 2
         IN  ConcatAll(SubSeq(ss, 1, h)) \o ConcatAll(SubSeq(ss, h + 1, Len(ss)))

\* What url.QueryEscape writes for one byte: a space becomes '+', every other
\* reserved byte %XX in upper-case hex.
EscapeByte(c) ==
    IF c \in Unreserved THEN <<c>>
    ELSE IF c = " " THEN <<"+">>
    ELSE <<"%", HexDigitUpper(ByteCode(c) \div 16),
                HexDigitUpper(ByteCode(c) % 16)>>

\* url.QueryEscape(s)
QueryEscape(s) == ConcatAll([i \in 1..Len(s) |-> EscapeByte(s[i])])

\* The decimal digits of n (the %d verb).
RECURSIVE Itoa(_)
Itoa(n) ==
    IF n < 10 THEN <<SubSeq(Digits, n + 1, n + 1)>>
    ELSE Itoa(n \div 10) \o <<SubSeq(Digits, (n % 10) + 1, (n % 10) + 1)>>

\* n in at least w digits, zero-padded on the left (the %02d verb, and the
\* fixed-width fields of a time layout).
ZeroPad(n, w) ==
    LET d == Itoa(n)
    IN  IF Len(d) >= w THEN d ELSE [i \in 1..(w - Len(d)) |-> "0"] \o d

-----------------------------------------------------------------------------
(* Digests, kept symbolic *)

\* The bytes of x written out as one string (digests in x stay as they are),
\* halving x so that the nesting stays logarithmic in its length.
RECURSIVE Flat(_)
Flat(x) ==
    IF Len(x) = 0 THEN ""
    ELSE IF Len(x) = 1 THEN x[1]
    ELSE LET h == Len(x) \div 2
         IN  Flat(SubSeq(x, 1, h)) \o Flat(SubSeq(x, h + 1, Len(x)))

\* sha256.Sum256(data): one element naming the hashed bytes.
Sha256(data) == <<"sha256(" \o Flat(data) \o ")">>

\* hmac.New(sha256.New, key); Write(data); Sum(nil)
HmacSha256(key, data) == <<"hmac(" \o Flat(key) \o ";" \o Flat(data) \o ")">>

\* hex.EncodeToString(digest): one element standing for the 64 hex digits.
HexEncode(digest) == <<"hex:" \o digest[1]>>

IsHex(x) == Len(x) = 1 /\ Len(x[1]) > 4 /\ SubSeq(x[1], 1, 4) = "hex:"


-----------------------------------------------------------------------------
(* time.Time *)

\* The zero time.Time: January 1, year 1, 00:00:00.000000000 UTC.
ZeroTime ==
    [year |-> 1, month |-> 1, day |-> 1, hour |-> 0, minute |-> 0,
     second |-> 0, nsec |-> 0]

\* t.IsZero()
IsZero(t) == t = ZeroTime

\* t.Format("2006-01-02T15:04:05.000Z"): fixed-width fields, the fraction
\* truncated to milliseconds, a literal Z.
FormatAmzDate(t) ==
    ZeroPad(t.year, 4) \o Str("-") \o ZeroPad(t.month, 2) \o Str("-")
        \o ZeroPad(t.day, 2) \o Str("T") \o ZeroPad(t.hour, 2) \o Str(":")
        \o ZeroPad(t.minute, 2) \o Str(":") \o ZeroPad(t.second, 2) \o Str(".")
        \o ZeroPad(t.nsec \div 1000000, 3) \o Str("Z")

-----------------------------------------------------------------------------
(* package internal: the signing engine *)

NoncePrefix == Str("nonce=")

\* ExtractNonce as it would be if it accepts the prefix at any position of the
\* payload.
ExtractNonceAnywhere(req) ==
    LET text == IF req.isNil THEN <<>> ELSE req.bytes
    IN  IF Index(text, NoncePrefix) = 0
        THEN [nonce |-> <<>>, ok |-> FALSE,
              msg |-> "request does not contain nonce property"]
        ELSE [nonce |-> Split(text, NoncePrefix)[2], ok |-> TRUE, msg |-> ""]

\* ExtractNonce(req): (nonce, err).  string(req) of a nil slice is "".
ExtractNonce(req) ==
    LET text == IF req.isNil THEN <<>> ELSE req.bytes
    IN  IF ~HasPrefix(text, NoncePrefix)
        THEN [nonce |-> <<>>, ok |-> FALSE,
              msg |-> "request does not contain nonce property"]
        ELSE [nonce |-> Split(text, NoncePrefix)[2], ok |-> TRUE, msg |-> ""]

\* toCredDateStamp(t): Sprintf("%d%02d%02d", year, month, day)
toCredDateStamp(t) ==
    Itoa(t.year) \o ZeroPad(t.month, 2) \o ZeroPad(t.day, 2)

\* computeScope(t, region)
computeScope(t, region) ==
    Join(<<toCredDateStamp(t), region, Str("cassandra"), Str("aws4_request")>>,
         Str("/"))

\* formCanonicalRequest(accessKeyId, scope, t, nonce)
formCanonicalRequest(accessKeyId, scope, t, nonce) ==
    LET nonceHash == Sha256(nonce)
        headers ==
            <<Str("X-Amz-Algorithm=AWS4-HMAC-SHA256"),
              Str("X-Amz-Credential=") \o accessKeyId \o Str("%2F")
                  \o QueryEscape(scope),
              Str("X-Amz-Date=") \o QueryEscape(FormatAmzDate(t)),
              Str("X-Amz-Expires=900")>>
        queryString == Join(SortStrings(headers), Str("&"))
    IN  Str("PUT\n/authenticate\n") \o queryString
            \o Str("\nhost:cassandra\n\nhost\n") \o HexEncode(nonceHash)

\* applyHmac(data, hashSecret)
applyHmac(data, hashSecret) == HmacSha256(hashSecret, data)

\* deriveSigningKey(secret, t, region)
deriveSigningKey(secret, t, region) ==
    LET s  == Str("AWS4") \o secret
        h0 == applyHmac(toCredDateStamp(t), s)
        h1 == applyHmac(region, h0)
        h2 == applyHmac(Str("cassandra"), h1)
    IN  applyHmac(Str("aws4_request"), h2)

\* createSignature(canonicalRequest, t, signingScope, signingKey)
createSignature(canonicalRequest, t, signingScope, signingKey) ==
    LET digest == Sha256(canonicalRequest)
        s == Str("AWS4-HMAC-SHA256\n") \o FormatAmzDate(t) \o Str("\n")
                \o signingScope \o Str("\n") \o HexEncode(digest)
    IN  applyHmac(s, signingKey)

\* BuildSignedResponse as it would be if it appends the session-token segment
\* whether or not the token is empty.
BuildSignedResponseAlwaysToken(region, nonce, accessKeyId, secret, sessionToken, t) ==
    LET scope == computeScope(t, region)
        canonicalRequest == formCanonicalRequest(accessKeyId, scope, t, nonce)
        signingKey == deriveSigningKey(secret, t, region)
        signature == createSignature(canonicalRequest, t, scope, signingKey)
    IN  Str("signature=") \o HexEncode(signature) \o Str(",access_key=")
            \o accessKeyId \o Str(",amzdate=") \o FormatAmzDate(t)
            \o Str(",session_token=") \o sessionToken

\* BuildSignedResponse as it would be if it took the time again for the
\* amzdate field of the response, a second after t.
BuildSignedResponseResamples(region, nonce, accessKeyId, secret, sessionToken, t) ==
    LET scope == computeScope(t, region)
        canonicalRequest == formCanonicalRequest(accessKeyId, scope, t, nonce)
        signingKey == deriveSigningKey(secret, t, region)
        signature == createSignature(canonicalRequest, t, scope, signingKey)
        again == [t EXCEPT !.second = (t.second + 1) % 60]
        result == Str("signature=") \o HexEncode(signature)
                      \o Str(",access_key=") \o accessKeyId
                      \o Str(",amzdate=") \o FormatAmzDate(again)
    IN  IF sessionToken # <<>>
        THEN result \o Str(",session_token=") \o sessionToken
        ELSE result

\* BuildSignedResponse(region, nonce, accessKeyId, secret, sessionToken, t)
BuildSignedResponse(region, nonce, accessKeyId, secret, sessionToken, t) ==
    LET scope == computeScope(t, region)
        canonicalRequest == formCanonicalRequest(accessKeyId, scope, t, nonce)
        signingKey == deriveSigningKey(secret, t, region)
        signature == createSignature(canonicalRequest, t, scope, signingKey)
        result == Str("signature=") \o HexEncode(signature)
                      \o Str(",access_key=") \o accessKeyId
                      \o Str(",amzdate=") \o FormatAmzDate(t)
    IN  IF sessionToken # <<>>
        THEN result \o Str(",session_token=") \o sessionToken
        ELSE result

-----------------------------------------------------------------------------
(* Go values that may be nil *)

NilBytes == [isNil |-> TRUE, bytes |-> <<>>]
Bytes(b) == [isNil |-> FALSE, bytes |-> b]

NoError == [isNil |-> TRUE, msg |-> "", wraps |-> ""]

\* errors.New(msg)
NewError(msg) == [isNil |-> FALSE, msg |-> msg, wraps |-> ""]

\* fmt.Errorf(prefix + "%w", cause): the message is prefix followed by the
\* cause's message, and errors.Unwrap gives the cause back.
WrapError(prefix, cause) ==
    [isNil |-> FALSE, msg |-> prefix \o cause.msg, wraps |-> cause.msg]

\* A nil SigV4CredentialsCallback, and the one callback the host may supply;
\* what that callback returns when invoked is the variable provider.
NoCallback == "nil"
ProviderCallback == "provider"
Callbacks == {NoCallback, ProviderCallback}

-----------------------------------------------------------------------------
(* package sigv4 *)

\* type SigV4Credentials
SigV4Credentials(accessKeyId, secretAccessKey, sessionToken) ==
    [AccessKeyId |-> accessKeyId, SecretAccessKey |-> secretAccessKey,
     SessionToken |-> sessionToken]

\* type AwsAuthenticator
AwsAuthenticator(region, accessKeyId, secretAccessKey, sessionToken, callback, currentTime) ==
    [Region |-> region, AccessKeyId |-> accessKeyId,
     SecretAccessKey |-> secretAccessKey, SessionToken |-> sessionToken,
     CredentialsCallback |-> callback, currentTime |-> currentTime]

\* type signingAuthenticator
signingAuthenticator(region, accessKeyId, secretAccessKey, sessionToken, callback, currentTime) ==
    [region |-> region, accessKeyId |-> accessKeyId,
     secretAccessKey |-> secretAccessKey, sessionToken |-> sessionToken,
     credentialsCallback |-> callback, currentTime |-> currentTime]

ZeroAwsAuthenticator ==
    AwsAuthenticator(<<>>, <<>>, <<>>, <<>>, NoCallback, ZeroTime)

ZeroSigningAuthenticator ==
    signingAuthenticator(<<>>, <<>>, <<>>, <<>>, NoCallback, ZeroTime)

\* A gocql.Authenticator interface value: nil, or a signingAuthenticator.
NilHandler == [isNil |-> TRUE, auth |-> ZeroSigningAuthenticator]
Handler(a) == [isNil |-> FALSE, auth |-> a]

\* The environment variables the constructors read.
EnvNames ==
    {"AWS_DEFAULT_REGION", "AWS_REGION", "AWS_ACCESS_KEY_ID",
     "AWS_SECRET_ACCESS_KEY", "AWS_SESSION_TOKEN"}

Unset == [set |-> FALSE, value |-> <<>>]
SetTo(v) == [set |-> TRUE, value |-> v]

\* os.Getenv(name): the value, or "" when the variable is not set.
Getenv(env, name) == IF env[name].set THEN env[name].value ELSE <<>>

\* getRegionEnvironment as it would be if it reads AWS_REGION first and falls
\* back to AWS_DEFAULT_REGION.
getRegionEnvironmentRegionFirst(env) ==
    LET region == Getenv(env, "AWS_REGION")
    IN  IF Len(region) = 0 THEN Getenv(env, "AWS_DEFAULT_REGION") ELSE region

\* getRegionEnvironment()
getRegionEnvironment(env) ==
    LET region == Getenv(env, "AWS_DEFAULT_REGION")
    IN  IF Len(region) = 0 THEN Getenv(env, "AWS_REGION") ELSE region

\* NewAwsAuthenticator()
NewAwsAuthenticator(env) ==
    AwsAuthenticator(getRegionEnvironment(env),
                     Getenv(env, "AWS_ACCESS_KEY_ID"),
                     Getenv(env, "AWS_SECRET_ACCESS_KEY"),
                     Getenv(env, "AWS_SESSION_TOKEN"),
                     NoCallback, ZeroTime)

\* NewAwsAuthenticatorWithCredentialCallback(region, callback)
NewAwsAuthenticatorWithCredentialCallback(region, callback) ==
    AwsAuthenticator(region, <<>>, <<>>, <<>>, callback, ZeroTime)

SigV4Token == Str("SigV4") \o <<NUL, NUL>>

\* AwsChallenge as it would be if it leaves the two zero bytes off the token.
AwsChallengeNoTerminator(p, req) ==
    [resp |-> Bytes(Str("SigV4")),
     handler |-> Handler(signingAuthenticator(p.Region, p.AccessKeyId,
                     p.SecretAccessKey, p.SessionToken,
                     p.CredentialsCallback, p.currentTime)),
     err |-> NoError]

\* func (p AwsAuthenticator) Challenge(req): (resp, auth, err)
AwsChallenge(p, req) ==
    LET resp == Bytes(SigV4Token)
        auth == signingAuthenticator(p.Region, p.AccessKeyId,
                    p.SecretAccessKey, p.SessionToken,
                    p.CredentialsCallback, p.currentTime)
    IN  [resp |-> resp, handler |-> Handler(auth), err |-> NoError]

\* func (p AwsAuthenticator) Success(data) and
\* func (p signingAuthenticator) Success(data)
AwsSuccess(p, data) == NoError
SigningSuccess(p, data) == NoError

CredentialsErrorPrefix == "failed to retrieve AWS credentials: "

\* What one call of signingAuthenticator.Challenge did and returned:
\* resp, handler, err are its results; the other fields record the path taken
\* (the nonce extracted, the instant resolved and whether the clock was read
\* for it, how many times the callback was invoked and what it returned, how
\* many times the signing engine was invoked and with which arguments, and
\* events, the calls it made in the order it made them).
NoSigning ==
    [region |-> <<>>, accessKeyId |-> <<>>, secretAccessKey |-> <<>>,
     sessionToken |-> <<>>]

\* What the callback returned, when it was not invoked.
NotInvoked ==
    [creds |-> SigV4Credentials(<<>>, <<>>, <<>>), err |-> NoError]

Outcome(resp, handler, err, nonceOk, nonce, t, clockReads, callbackCalls, returned, engineCalls, signedWith, events) ==
    [resp |-> resp, handler |-> handler, err |-> err, nonceOk |-> nonceOk,
     nonce |-> nonce, t |-> t, clockReads |-> clockReads,
     callbackCalls |-> callbackCalls, returned |-> returned,
     engineCalls |-> engineCalls, signedWith |-> signedWith,
     events |-> events]


\* SigningChallenge as it would be if it keeps a populated static field over
\* the value the callback returned.
SigningChallengeStaticFirst(p, req, now, callbackResult) ==
    LET extracted == ExtractNonce(req)
        nonce == extracted.nonce
        \* init the time if not provided.
        t == IF IsZero(p.currentTime) THEN now ELSE p.currentTime
        clockReads == IF IsZero(p.currentTime) THEN 1 ELSE 0
        clockEvents == IF IsZero(p.currentTime) THEN <<"time.Now">> ELSE <<>>
        hasCallback == p.credentialsCallback # NoCallback
        credentials == callbackResult.creds
        accessKeyId == IF hasCallback /\ p.accessKeyId = <<>>
                       THEN credentials.AccessKeyId ELSE p.accessKeyId
        secretAccessKey == IF hasCallback /\ p.secretAccessKey = <<>>
                           THEN credentials.SecretAccessKey
                           ELSE p.secretAccessKey
        sessionToken == IF hasCallback /\ p.sessionToken = <<>>
                        THEN credentials.SessionToken ELSE p.sessionToken
        signedResponse == BuildSignedResponse(p.region, nonce, accessKeyId,
                              secretAccessKey, sessionToken, t)
    IN  IF ~extracted.ok
        THEN Outcome(NilBytes, NilHandler, NewError(extracted.msg),
                     FALSE, <<>>, ZeroTime, 0, 0, NotInvoked, 0, NoSigning,
                     <<"ExtractNonce">>)
        ELSE IF hasCallback /\ ~callbackResult.err.isNil
        THEN Outcome(NilBytes, NilHandler,
                     WrapError(CredentialsErrorPrefix, callbackResult.err),
                     TRUE, nonce, t, clockReads, 1, callbackResult, 0,
                     NoSigning,
                     <<"ExtractNonce">> \o clockEvents
                         \o <<"credentialsCallback">>)
        ELSE Outcome(Bytes(signedResponse), NilHandler, NoError,
                     TRUE, nonce, t, clockReads,
                     IF hasCallback THEN 1 ELSE 0,
                     IF hasCallback THEN callbackResult ELSE NotInvoked, 1,
                     [region |-> p.region, accessKeyId |-> accessKeyId,
                      secretAccessKey |-> secretAccessKey,
                      sessionToken |-> sessionToken],
                     <<"ExtractNonce">> \o clockEvents
                         \o (IF hasCallback THEN <<"credentialsCallback">> ELSE <<>>)
                         \o <<"BuildSignedResponse">>)

\* SigningChallenge as it would be if it signs with the static fields when the
\* callback fails.
SigningChallengeFallback(p, req, now, callbackResult) ==
    LET extracted == ExtractNonce(req)
        nonce == extracted.nonce
        \* init the time if not provided.
        t == IF IsZero(p.currentTime) THEN now ELSE p.currentTime
        clockReads == IF IsZero(p.currentTime) THEN 1 ELSE 0
        clockEvents == IF IsZero(p.currentTime) THEN <<"time.Now">> ELSE <<>>
        called == p.credentialsCallback # NoCallback
        hasCallback == called /\ callbackResult.err.isNil
        credentials == callbackResult.creds
        accessKeyId == IF hasCallback THEN credentials.AccessKeyId
                       ELSE p.accessKeyId
        secretAccessKey == IF hasCallback THEN credentials.SecretAccessKey
                           ELSE p.secretAccessKey
        sessionToken == IF hasCallback THEN credentials.SessionToken
                        ELSE p.sessionToken
        signedResponse == BuildSignedResponse(p.region, nonce, accessKeyId,
                              secretAccessKey, sessionToken, t)
    IN  IF ~extracted.ok
        THEN Outcome(NilBytes, NilHandler, NewError(extracted.msg),
                     FALSE, <<>>, ZeroTime, 0, 0, NotInvoked, 0, NoSigning,
                     <<"ExtractNonce">>)
        ELSE Outcome(Bytes(signedResponse), NilHandler, NoError,
                     TRUE, nonce, t, clockReads,
                     IF called THEN 1 ELSE 0,
                     IF called THEN callbackResult ELSE NotInvoked, 1,
                     [region |-> p.region, accessKeyId |-> accessKeyId,
                      secretAccessKey |-> secretAccessKey,
                      sessionToken |-> sessionToken],
                     <<"ExtractNonce">> \o clockEvents
                         \o (IF called THEN <<"credentialsCallback">> ELSE <<>>)
                         \o <<"BuildSignedResponse">>)

\* SigningChallenge as it would be if it hands the signer back as the
\* follow-on handler.
SigningChallengeKeepsHandler(p, req, now, callbackResult) ==
    LET extracted == ExtractNonce(req)
        nonce == extracted.nonce
        \* init the time if not provided.
        t == IF IsZero(p.currentTime) THEN now ELSE p.currentTime
        clockReads == IF IsZero(p.currentTime) THEN 1 ELSE 0
        clockEvents == IF IsZero(p.currentTime) THEN <<"time.Now">> ELSE <<>>
        hasCallback == p.credentialsCallback # NoCallback
        credentials == callbackResult.creds
        accessKeyId == IF hasCallback THEN credentials.AccessKeyId
                       ELSE p.accessKeyId
        secretAccessKey == IF hasCallback THEN credentials.SecretAccessKey
                           ELSE p.secretAccessKey
        sessionToken == IF hasCallback THEN credentials.SessionToken
                        ELSE p.sessionToken
        signedResponse == BuildSignedResponse(p.region, nonce, accessKeyId,
                              secretAccessKey, sessionToken, t)
    IN  IF ~extracted.ok
        THEN Outcome(NilBytes, NilHandler, NewError(extracted.msg),
                     FALSE, <<>>, ZeroTime, 0, 0, NotInvoked, 0, NoSigning,
                     <<"ExtractNonce">>)
        ELSE IF hasCallback /\ ~callbackResult.err.isNil
        THEN Outcome(NilBytes, NilHandler,
                     WrapError(CredentialsErrorPrefix, callbackResult.err),
                     TRUE, nonce, t, clockReads, 1, callbackResult, 0,
                     NoSigning,
                     <<"ExtractNonce">> \o clockEvents
                         \o <<"credentialsCallback">>)
        ELSE Outcome(Bytes(signedResponse), Handler(p), NoError,
                     TRUE, nonce, t, clockReads,
                     IF hasCallback THEN 1 ELSE 0,
                     IF hasCallback THEN callbackResult ELSE NotInvoked, 1,
                     [region |-> p.region, accessKeyId |-> accessKeyId,
                      secretAccessKey |-> secretAccessKey,
                      sessionToken |-> sessionToken],
                     <<"ExtractNonce">> \o clockEvents
                         \o (IF hasCallback THEN <<"credentialsCallback">> ELSE <<>>)
                         \o <<"BuildSignedResponse">>)

\* func (p signingAuthenticator) Challenge(req): (resp, auth, err), given
\* what time.Now().UTC() reads and what the callback returns if invoked.
SigningChallenge(p, req, now, callbackResult) ==
    LET extracted == ExtractNonce(req)
        nonce == extracted.nonce
        \* init the time if not provided.
        t == IF IsZero(p.currentTime) THEN now ELSE p.currentTime
        clockReads == IF IsZero(p.currentTime) THEN 1 ELSE 0
        clockEvents == IF IsZero(p.currentTime) THEN <<"time.Now">> ELSE <<>>
        hasCallback == p.credentialsCallback # NoCallback
        credentials == callbackResult.creds
        accessKeyId == IF hasCallback THEN credentials.AccessKeyId
                       ELSE p.accessKeyId
        secretAccessKey == IF hasCallback THEN credentials.SecretAccessKey
                           ELSE p.secretAccessKey
        sessionToken == IF hasCallback THEN credentials.SessionToken
                        ELSE p.sessionToken
        signedResponse == BuildSignedResponse(p.region, nonce, accessKeyId,
                              secretAccessKey, sessionToken, t)
    IN  IF ~extracted.ok
        THEN Outcome(NilBytes, NilHandler, NewError(extracted.msg),
                     FALSE, <<>>, ZeroTime, 0, 0, NotInvoked, 0, NoSigning,
                     <<"ExtractNonce">>)
        ELSE IF hasCallback /\ ~callbackResult.err.isNil
        THEN Outcome(NilBytes, NilHandler,
                     WrapError(CredentialsErrorPrefix, callbackResult.err),
                     TRUE, nonce, t, clockReads, 1, callbackResult, 0,
                     NoSigning,
                     <<"ExtractNonce">> \o clockEvents
                         \o <<"credentialsCallback">>)
        ELSE Outcome(Bytes(signedResponse), NilHandler, NoError,
                     TRUE, nonce, t, clockReads,
                     IF hasCallback THEN 1 ELSE 0,
                     IF hasCallback THEN callbackResult ELSE NotInvoked, 1,
                     [region |-> p.region, accessKeyId |-> accessKeyId,
                      secretAccessKey |-> secretAccessKey,
                      sessionToken |-> sessionToken],
                     <<"ExtractNonce">> \o clockEvents
                         \o (IF hasCallback THEN <<"credentialsCallback">> ELSE <<>>)
                         \o <<"BuildSignedResponse">>)

-----------------------------------------------------------------------------
(* The values the model draws from *)

\* How many signer instances the host drives at once, how many challenges it
\* may deliver to one of them, and how many writes it makes to the
\* configuration after construction.
NumSigners == 2
MaxChallenges == 2
MaxWrites == 1
\* How many pieces a challenge payload handed to ExtractNonce is made of.
MaxChunks == 3

SignerIds == 1..NumSigners

Regions == {<<>>, Str("us-west-2")}
AccessKeyIds == {<<>>, Str("UserID-1")}
SecretAccessKeys == {<<>>, Str("UserSecretKey-1")}
SessionTokens == {<<>>, Str("Token-1")}

\* 2020-06-09T22:41:51Z, the instant of the tests, and the last nanosecond of
\* 2021.
TestInstant ==
    [year |-> 2020, month |-> 6, day |-> 9, hour |-> 22, minute |-> 41,
     second |-> 51, nsec |-> 0]
LaterInstant ==
    [year |-> 2021, month |-> 12, day |-> 31, hour |-> 23, minute |-> 59,
     second |-> 59, nsec |-> 999999999]

\* What time.Now().UTC() reads, in order.
ClockInstants == <<TestInstant, LaterInstant>>

\* The test-only clock override: not set (the zero time), or set.
Overrides == {ZeroTime, TestInstant}

\* What the credentials callback may return: credentials without a session
\* token, the zero SigV4Credentials, or an error.
FreshCredentials ==
    [creds |-> SigV4Credentials(Str("UserID-2"), Str("UserSecretKey-2"), <<>>),
     err |-> NoError]
EmptyCredentials ==
    [creds |-> SigV4Credentials(<<>>, <<>>, <<>>), err |-> NoError]
FailedCredentials ==
    [creds |-> SigV4Credentials(<<>>, <<>>, <<>>), err |-> NewError("bad error")]
CallbackResults == {FreshCredentials, EmptyCredentials, FailedCredentials}

\* Every AwsAuthenticator value over the fields' values.
AllTargets ==
    {AwsAuthenticator(r, a, k, tok, cb, ct) :
        r \in Regions, a \in AccessKeyIds, k \in SecretAccessKeys,
        tok \in SessionTokens, cb \in Callbacks, ct \in Overrides}

\* buildStdTarget() and the target of TestCallback.
StdTarget ==
    AwsAuthenticator(Str("us-west-2"), Str("UserID-1"), Str("UserSecretKey-1"),
                     <<>>, NoCallback, TestInstant)
CallbackTarget ==
    [NewAwsAuthenticatorWithCredentialCallback(Str("us-west-2"), ProviderCallback)
        EXCEPT !.currentTime = TestInstant]

StdNonce == Str("nonce=91703f")

\* What the host passes to step 1: nothing, or the authenticator class name
\* the server announced (shortened).
Step1Inputs == {NilBytes, Bytes(<<>>), Bytes(Str("SigV4Authenticator"))}

\* Challenge payloads: nil, empty, the prefix at a later position, the bare
\* prefix, and a well-formed challenge.
Payloads ==
    {NilBytes, Bytes(<<>>), Bytes(Str("xnonce=91703f")), Bytes(NoncePrefix),
     Bytes(StdNonce)}

\* Payloads for ExtractNonce alone: up to MaxChunks pieces, each the prefix or
\* a fragment of it or another byte.
Chunks == {NoncePrefix, Str("n"), Str("once="), Str("a")}

RECURSIVE ChunkStrings(_)
ChunkStrings(n) ==
    IF n = 0 THEN {<<>>}
    ELSE LET shorter == ChunkStrings(n - 1)
         IN  shorter \cup {x \o c : x \in shorter, c \in Chunks}

EnginePayloads == {NilBytes} \cup {Bytes(x) : x \in ChunkStrings(MaxChunks)}

\* Arguments for BuildSignedResponse alone.
EngineAccessKeyIds == AccessKeyIds \cup {Str("ID,session_token=x")}
EngineSessionTokens == SessionTokens \cup {Str("T,session_token=")}
EngineNonces == {<<>>, Str("91703f")}

\* Values an environment variable may be set to.
EnvValues(name) ==
    IF name \in {"AWS_DEFAULT_REGION", "AWS_REGION"}
    THEN {<<>>, Str("us-west-2"), Str("us-east-2")}
    ELSE IF name = "AWS_ACCESS_KEY_ID" THEN {Str("UserID-1")}
    ELSE IF name = "AWS_SECRET_ACCESS_KEY" THEN {Str("UserSecretKey-1")}
    ELSE {Str("Token-1")}

-----------------------------------------------------------------------------
(* State *)

\* environ   the process environment
\* target    the host's AwsAuthenticator value
\* signers   the signingAuthenticator instances handed out by step 1, with
\*           a record of where each came from and what it has done
\* provider  what the credentials callback returns when invoked now
\* clock     what time.Now().UTC() reads now (an index of ClockInstants)
\* writes    how many writes the host has made to target's fields
\* last      the last call into the package: its arguments, results and path

NoSigner ==
    [made |-> FALSE, auth |-> ZeroSigningAuthenticator,
     origin |-> ZeroAwsAuthenticator, handled |-> 0, signed |-> 0]

Call(op, signer, req, outcome) ==
    [op |-> op, signer |-> signer, req |-> req, out |-> outcome]

NoOutcome ==
    Outcome(NilBytes, NilHandler, NoError, FALSE, <<>>, ZeroTime, 0, 0,
            NotInvoked, 0, NoSigning, <<>>)

NoCall == Call("none", 0, NilBytes, NoOutcome)

InitCommon ==
    /\ environ = [n \in EnvNames |-> Unset]
    /\ signers = [s \in SignerIds |-> NoSigner]
    /\ provider = FreshCredentials
    /\ clock = 1
    /\ writes = 0
    /\ last = NoCall

\* Any AwsAuthenticator value the host may have built.
Init == InitCommon /\ target \in AllTargets

\* The configurations of the tests, shared by several connections.
InitShared == InitCommon /\ target \in {StdTarget, CallbackTarget}

InitZero == InitCommon /\ target = ZeroAwsAuthenticator

\* The configuration of the tests, with and without a session token, a
\* callback and the clock override.
ClockTargets ==
    {AwsAuthenticator(Str("us-west-2"), Str("UserID-1"),
                      Str("UserSecretKey-1"), tok, cb, ct) :
        tok \in SessionTokens, cb \in Callbacks, ct \in Overrides}

InitClock == InitCommon /\ target \in ClockTargets

-----------------------------------------------------------------------------
(* Operations *)

\* Step1 as it would be if it hands out a reference to one shared signer, so
\* that a later step 1 rewrites the fields of the signers made before.
Step1Shared(s, req) ==
    LET out == AwsChallenge(target, req)
    IN  /\ ~signers[s].made
        /\ signers' = [x \in SignerIds |->
                          IF x = s
                          THEN [made |-> TRUE, auth |-> out.handler.auth,
                                origin |-> target, handled |-> 0, signed |-> 0]
                          ELSE IF signers[x].made
                          THEN [signers[x] EXCEPT !.auth = out.handler.auth]
                          ELSE signers[x]]
        /\ last' = Call("AwsAuthenticator.Challenge", s, req,
                        [NoOutcome EXCEPT !.resp = out.resp,
                                          !.handler = out.handler,
                                          !.err = out.err])
        /\ UNCHANGED <<environ, target, provider, clock, writes>>

\* Step1 as it would be if it resolved the credentials while building the
\* signer: it invokes the callback, if there is one, and hands the signer
\* the credentials returned as its static fields.
Step1Eager(s, req) ==
    LET out == AwsChallenge(target, req)
        eager == target.CredentialsCallback # NoCallback
        auth == IF eager
                THEN [out.handler.auth EXCEPT
                         !.accessKeyId = provider.creds.AccessKeyId,
                         !.secretAccessKey = provider.creds.SecretAccessKey,
                         !.sessionToken = provider.creds.SessionToken,
                         !.credentialsCallback = NoCallback]
                ELSE out.handler.auth
    IN  /\ ~signers[s].made
        /\ signers' = [signers EXCEPT ![s] =
                          [made |-> TRUE, auth |-> auth,
                           origin |-> target, handled |-> 0, signed |-> 0]]
        /\ last' = Call("AwsAuthenticator.Challenge", s, req,
                        [NoOutcome EXCEPT
                            !.resp = out.resp,
                            !.handler = Handler(auth),
                            !.err = out.err,
                            !.callbackCalls = IF eager THEN 1 ELSE 0,
                            !.returned = IF eager THEN provider ELSE NotInvoked,
                            !.events = IF eager THEN <<"credentialsCallback">>
                                       ELSE <<>>])
        /\ UNCHANGED <<environ, target, provider, clock, writes>>

\* Step 1: the host calls target.Challenge(req) and keeps the handler as
\* signer s.
Step1(s, req) ==
    LET out == AwsChallenge(target, req)
    IN  /\ ~signers[s].made
        /\ signers' = [signers EXCEPT ![s] =
                          [made |-> TRUE, auth |-> out.handler.auth,
                           origin |-> target, handled |-> 0, signed |-> 0]]
        /\ last' = Call("AwsAuthenticator.Challenge", s, req,
                        [NoOutcome EXCEPT !.resp = out.resp,
                                          !.handler = out.handler,
                                          !.err = out.err])
        /\ UNCHANGED <<environ, target, provider, clock, writes>>

\* Step 2: the host delivers req to signer s.  The callback, if invoked,
\* returns provider; time.Now().UTC(), if read, reads the clock.
Step2(s, req) ==
    LET out == SigningChallenge(signers[s].auth, req, ClockInstants[clock],
                                provider)
    IN  /\ signers[s].made
        /\ signers[s].handled < MaxChallenges
        /\ signers' = [signers EXCEPT
                          ![s].handled = @ + 1,
                          ![s].signed = IF out.resp.isNil THEN @ ELSE @ + 1]
        /\ last' = Call("signingAuthenticator.Challenge", s, req, out)
        /\ UNCHANGED <<environ, target, provider, clock, writes>>

\* target.Success(data)
SuccessTarget(data) ==
    /\ last' = Call("AwsAuthenticator.Success", 0, data,
                    [NoOutcome EXCEPT !.err = AwsSuccess(target, data)])
    /\ UNCHANGED <<environ, target, signers, provider, clock, writes>>

\* Success(data) on signer s
SuccessSigner(s, data) ==
    /\ signers[s].made
    /\ last' = Call("signingAuthenticator.Success", s, data,
                    [NoOutcome EXCEPT
                        !.err = SigningSuccess(signers[s].auth, data)])
    /\ UNCHANGED <<environ, target, signers, provider, clock, writes>>

\* The credentials behind the callback change (rotation, expiry, failure).
Rotate(r) ==
    /\ r # provider
    /\ provider' = r
    /\ UNCHANGED <<environ, target, signers, clock, writes, last>>

\* Time passes.
Tick ==
    /\ clock < Len(ClockInstants)
    /\ clock' = clock + 1
    /\ UNCHANGED <<environ, target, signers, provider, writes, last>>

\* The host assigns to one exported field of target after construction.
WriteField(new) ==
    /\ writes < MaxWrites
    /\ new # target
    /\ target' = new
    /\ writes' = writes + 1
    /\ UNCHANGED <<environ, signers, provider, clock, last>>

SetRegion(v) == WriteField([target EXCEPT !.Region = v])
SetAccessKeyId(v) == WriteField([target EXCEPT !.AccessKeyId = v])
SetSecretAccessKey(v) == WriteField([target EXCEPT !.SecretAccessKey = v])
SetSessionToken(v) == WriteField([target EXCEPT !.SessionToken = v])
SetCredentialsCallback(c) == WriteField([target EXCEPT !.CredentialsCallback = c])

\* os.Setenv(name, v) and os.Unsetenv(name)
Setenv(name, v) ==
    /\ environ[name] # SetTo(v)
    /\ environ' = [environ EXCEPT ![name] = SetTo(v)]
    /\ last' = Call("os.Setenv", 0, NilBytes, NoOutcome)
    /\ UNCHANGED <<target, signers, provider, clock, writes>>

Unsetenv(name) ==
    /\ environ[name].set
    /\ environ' = [environ EXCEPT ![name] = Unset]
    /\ last' = Call("os.Unsetenv", 0, NilBytes, NoOutcome)
    /\ UNCHANGED <<target, signers, provider, clock, writes>>

\* target = NewAwsAuthenticator()
CallNewAwsAuthenticator ==
    /\ target' = NewAwsAuthenticator(environ)
    /\ last' = Call("NewAwsAuthenticator", 0, NilBytes, NoOutcome)
    /\ UNCHANGED <<environ, signers, provider, clock, writes>>

\* target = NewAwsAuthenticatorWithCredentialCallback(region, callback)
CallNewAwsAuthenticatorWithCredentialCallback(region, callback) ==
    /\ target' = NewAwsAuthenticatorWithCredentialCallback(region, callback)
    /\ last' = Call("NewAwsAuthenticatorWithCredentialCallback", 0, NilBytes,
                    NoOutcome)
    /\ UNCHANGED <<environ, signers, provider, clock, writes>>

\* internal.ExtractNonce(req), called on its own: one call per behaviour (the
\* function keeps no state, so a second call would see what the first saw)
CallExtractNonce(req) ==
    LET e == ExtractNonce(req)
    IN  /\ last = NoCall
        /\ last' = Call("ExtractNonce", 0, req,
                        [NoOutcome EXCEPT
                            !.nonceOk = e.ok, !.nonce = e.nonce,
                            !.events = <<"ExtractNonce">>,
                            !.err = IF e.ok THEN NoError ELSE NewError(e.msg)])
        /\ UNCHANGED <<environ, target, signers, provider, clock, writes>>

\* internal.BuildSignedResponse(region, nonce, accessKeyId, secret,
\* sessionToken, t), called on its own
CallBuildSignedResponse(region, nonce, accessKeyId, secret, sessionToken, t) ==
    /\ last = NoCall
    /\ last' = Call("BuildSignedResponse", 0, NilBytes,
                    [NoOutcome EXCEPT
                        !.resp = Bytes(BuildSignedResponse(region, nonce,
                                     accessKeyId, secret, sessionToken, t)),
                        !.nonce = nonce, !.t = t, !.engineCalls = 1,
                        !.events = <<"BuildSignedResponse">>,
                        !.signedWith =
                            [region |-> region, accessKeyId |-> accessKeyId,
                             secretAccessKey |-> secret,
                             sessionToken |-> sessionToken]])
    /\ UNCHANGED <<environ, target, signers, provider, clock, writes>>

-----------------------------------------------------------------------------
(* Specifications *)

\* One connection attempt from any configuration.
Next ==
    \/ \E req \in Step1Inputs : Step1(1, req)
    \/ \E req \in Payloads : Step2(1, req)
    \/ \E data \in {NilBytes, Bytes(<<>>)} : SuccessTarget(data)
    \/ \E data \in {NilBytes, Bytes(<<>>)} : SuccessSigner(1, data)
    \/ \E r \in CallbackResults : Rotate(r)
    \/ Tick

Spec == Init /\ [][Next]_vars

\* Several connection attempts from one configuration that the host keeps
\* writing to.
NextShared ==
    \/ \E s \in SignerIds : Step1(s, NilBytes)
    \/ \E s \in SignerIds : \E req \in {NilBytes, Bytes(StdNonce)} : Step2(s, req)
    \/ SuccessTarget(NilBytes)
    \/ \E s \in SignerIds : SuccessSigner(s, NilBytes)
    \/ \E r \in {FreshCredentials, FailedCredentials} : Rotate(r)
    \/ \E v \in Regions : SetRegion(v)
    \/ \E v \in AccessKeyIds : SetAccessKeyId(v)
    \/ \E v \in SecretAccessKeys : SetSecretAccessKey(v)
    \/ \E v \in SessionTokens : SetSessionToken(v)
    \/ \E c \in Callbacks : SetCredentialsCallback(c)

SpecShared == InitShared /\ [][NextShared]_vars

\* The signing engine's functions on their own.
NextEngine ==
    \/ \E req \in EnginePayloads : CallExtractNonce(req)
    \/ \E r \in Regions, n \in EngineNonces, a \in EngineAccessKeyIds,
          k \in SecretAccessKeys, tok \in EngineSessionTokens,
          i \in 1..Len(ClockInstants) :
            CallBuildSignedResponse(r, n, a, k, tok, ClockInstants[i])

SpecEngine == InitZero /\ [][NextEngine]_vars

\* The constructor that reads the environment.
NextEnv ==
    \/ \E name \in EnvNames : \E v \in EnvValues(name) : Setenv(name, v)
    \/ \E name \in EnvNames : Unsetenv(name)
    \/ CallNewAwsAuthenticator

SpecEnv == InitZero /\ [][NextEnv]_vars

\* One connection attempt from a configuration a constructor built, while the
\* credentials the callback returns change.
NextLazy ==
    \/ CallNewAwsAuthenticator
    \/ \E r \in Regions : \E c \in Callbacks :
          CallNewAwsAuthenticatorWithCredentialCallback(r, c)
    \/ \E req \in {NilBytes, Bytes(<<>>)} : Step1(1, req)
    \/ \E req \in Payloads : Step2(1, req)
    \/ SuccessTarget(NilBytes)
    \/ SuccessSigner(1, NilBytes)
    \/ \E r \in CallbackResults : Rotate(r)

SpecLazy == InitZero /\ [][NextLazy]_vars

\* One connection attempt while time passes.
NextClock ==
    \/ Step1(1, NilBytes)
    \/ \E req \in {NilBytes, Bytes(StdNonce)} : Step2(1, req)
    \/ SuccessTarget(NilBytes)
    \/ SuccessSigner(1, NilBytes)
    \/ \E r \in {FreshCredentials, FailedCredentials} : Rotate(r)
    \/ Tick

SpecClock == InitClock /\ [][NextClock]_vars

-----------------------------------------------------------------------------
(* Properties *)

StepOne == "AwsAuthenticator.Challenge"
StepTwo == "signingAuthenticator.Challenge"

\* The payload of a call as text: string(req).
TextOf(req) == IF req.isNil THEN <<>> ELSE req.bytes

\* The payload begins with the six bytes n, o, n, c, e, =.
BeginsWithNonce(req) ==
    LET text == TextOf(req)
    IN  /\ Len(text) >= 6
        /\ <<text[1], text[2], text[3], text[4], text[5], text[6]>>
               = <<"n", "o", "n", "c", "e", "=">>

\* The signer the last call was made on.
LastSigner == signers[last.signer].auth

SessionTokenSegment == Str(",session_token=")

\* C1: whatever the configuration and whatever is passed to step 1,
\* AwsAuthenticator.Challenge returns exactly the 7 bytes S, i, g, V, 4, 0, 0,
\* a non-nil signer handler and no error.
C1_StepOneConstant ==
    last.op = StepOne =>
        /\ ~last.out.resp.isNil
        /\ last.out.resp.bytes = <<"S", "i", "g", "V", "4", NUL, NUL>>
        /\ Len(last.out.resp.bytes) = 7
        /\ ~last.out.handler.isNil
        /\ last.out.err.isNil

\* Step 1 was called with nil on a configuration with no region and no static
\* credentials, a callback and a clock override.
C1_Witness ==
    /\ last.op = StepOne
    /\ last.req.isNil
    /\ target.Region = <<>>
    /\ target.AccessKeyId = <<>>
    /\ target.CredentialsCallback = ProviderCallback
    /\ target.currentTime = TestInstant

\* C2: a step-2 payload that does not begin with "nonce=" (nil, empty, or
\* with "nonce=" only further in) gets an error, nil response bytes and a nil
\* handler.
C2_MalformedRejected ==
    (last.op = StepTwo /\ ~BeginsWithNonce(last.req)) =>
        /\ ~last.out.err.isNil
        /\ last.out.resp.isNil
        /\ last.out.resp.bytes = <<>>
        /\ last.out.handler.isNil
        /\ last.out.engineCalls = 0

\* Step 2 was handed a payload with "nonce=" at its second byte.
C2_Witness ==
    /\ last.op = StepTwo
    /\ last.req = Bytes(Str("xnonce=91703f"))
    /\ ~last.out.err.isNil

\* C3: ExtractNonce of "nonce=" followed by r succeeds and returns exactly r,
\* for every r, also one that contains "nonce=" again.
C3_ExtractNonceVerbatim ==
    (last.op = "ExtractNonce" /\ BeginsWithNonce(last.req)) =>
        /\ last.out.nonceOk
        /\ last.out.nonce = SubSeq(TextOf(last.req), 7, Len(TextOf(last.req)))

\* C4: when the callback is configured and succeeds, step 2 signs with exactly
\* the three values it returned, whatever the static fields hold (a static
\* session token is not emitted when the callback returns none), and the
\* response is the one a signer without callback gives whose static fields
\* hold the callback's values, for the same region, nonce and instant.
C4_CallbackPrecedence ==
    (/\ last.op = StepTwo
     /\ BeginsWithNonce(last.req)
     /\ LastSigner.credentialsCallback # NoCallback
     /\ last.out.returned.err.isNil) =>
        LET c == last.out.returned.creds
            static == [LastSigner EXCEPT
                          !.credentialsCallback = NoCallback,
                          !.accessKeyId = c.AccessKeyId,
                          !.secretAccessKey = c.SecretAccessKey,
                          !.sessionToken = c.SessionToken]
        IN  /\ last.out.callbackCalls = 1
            /\ ~last.out.resp.isNil
            /\ last.out.signedWith.accessKeyId = c.AccessKeyId
            /\ last.out.signedWith.secretAccessKey = c.SecretAccessKey
            /\ last.out.signedWith.sessionToken = c.SessionToken
            /\ c.SessionToken = <<>> =>
                   Index(last.out.resp.bytes, SessionTokenSegment) = 0
            /\ last.out.resp
                   = SigningChallenge(static, last.req, last.out.t,
                                      NotInvoked).resp

\* Step 2 signed with the callback's credentials on a signer whose static
\* key id, secret and session token are all populated with other values.
C4_Witness ==
    /\ last.op = StepTwo
    /\ LastSigner.credentialsCallback = ProviderCallback
    /\ LastSigner.accessKeyId = Str("UserID-1")
    /\ LastSigner.secretAccessKey = Str("UserSecretKey-1")
    /\ LastSigner.sessionToken = Str("Token-1")
    /\ last.out.returned = FreshCredentials
    /\ last.out.callbackCalls = 1
    /\ ~last.out.resp.isNil

\* C5: on a well-formed challenge, when the callback returns an error, step 2
\* returns nil bytes, a nil handler and an error that wraps the callback's
\* with the prefix "failed to retrieve AWS credentials: "; the engine is not
\* invoked, the callback was invoked exactly once, and the static fields are
\* not signed with.
C5_CallbackErrorAborts ==
    (/\ last.op = StepTwo
     /\ BeginsWithNonce(last.req)
     /\ LastSigner.credentialsCallback # NoCallback
     /\ ~last.out.returned.err.isNil) =>
        /\ last.out.resp.isNil
        /\ last.out.handler.isNil
        /\ ~last.out.err.isNil
        /\ last.out.err.msg
               = "failed to retrieve AWS credentials: "
                     \o last.out.returned.err.msg
        /\ last.out.err.wraps = last.out.returned.err.msg
        /\ last.out.engineCalls = 0
        /\ last.out.callbackCalls = 1
        /\ last.out.signedWith = NoSigning

\* The callback failed on a signer whose static credentials are populated.
C5_Witness ==
    /\ last.op = StepTwo
    /\ last.req = Bytes(StdNonce)
    /\ LastSigner.credentialsCallback = ProviderCallback
    /\ LastSigner.accessKeyId = Str("UserID-1")
    /\ LastSigner.secretAccessKey = Str("UserSecretKey-1")
    /\ last.out.returned = FailedCredentials
    /\ last.out.err.msg = "failed to retrieve AWS credentials: bad error"

\* C6: if the region, access key id or secret access key that step 2 resolved
\* is empty when signing occurs, step 2 returns an error and no signed
\* response; an empty session token alone never makes it fail.
C6_EmptyIdentityFails ==
    (/\ last.op = StepTwo
     /\ BeginsWithNonce(last.req)
     /\ last.out.returned.err.isNil) =>
        LET region == LastSigner.region
            accessKeyId == IF LastSigner.credentialsCallback # NoCallback
                           THEN last.out.returned.creds.AccessKeyId
                           ELSE LastSigner.accessKeyId
            secret == IF LastSigner.credentialsCallback # NoCallback
                      THEN last.out.returned.creds.SecretAccessKey
                      ELSE LastSigner.secretAccessKey
        IN  IF region = <<>> \/ accessKeyId = <<>> \/ secret = <<>>
            THEN ~last.out.err.isNil /\ last.out.resp.isNil
            ELSE last.out.err.isNil /\ ~last.out.resp.isNil

\* The signer that step 1 builds from a configuration.
SnapshotOf(config) == AwsChallenge(config, NilBytes).handler.auth

\* C7: a signer carries the configuration as it was at its step 1: no later
\* write to the configuration and no call on another signer changes it, so
\* every response it gives is the one the configuration of its step 1
\* dictates for that challenge, instant and callback result; and the
\* configuration changes only by the host's writes, never by a call.
C7_SnapshotIndependent ==
    [][/\ \A s \in SignerIds :
            signers[s].made =>
                /\ signers'[s].made
                /\ signers'[s].auth = signers[s].auth
                /\ signers'[s].auth = SnapshotOf(signers[s].origin)
       /\ target' # target => writes' = writes + 1
       /\ \A s \in SignerIds :
            signers'[s].handled # signers[s].handled =>
                /\ last'.op = StepTwo /\ last'.signer = s
                /\ target' = target
                /\ last'.out.resp
                       = SigningChallenge(SnapshotOf(signers[s].origin),
                                          last'.req, ClockInstants[clock],
                                          provider).resp
      ]_vars

\* A signer signed after the configuration it came from was overwritten,
\* while another signer, made from the new configuration, had already been
\* handed a challenge.
C7_Witness ==
    \E s, o \in SignerIds :
        /\ s # o
        /\ signers[s].made /\ signers[o].made
        /\ signers[s].origin # target
        /\ signers[o].origin = target
        /\ signers[o].handled > 0
        /\ last.op = StepTwo /\ last.signer = s
        /\ ~last.out.resp.isNil

\* Where an instance of the challenge protocol stands: 0 Unstarted,
\* 1 Protocol-Selected (step 1 done), 2 Signing (a challenge delivered).
Phase(sg) == IF ~sg.made THEN 0 ELSE IF sg.handled = 0 THEN 1 ELSE 2

\* C8, as claimed: an instance moves only forward, step 2 returns no follow-on
\* handler, and no signer instance produces a second signed response.
C8_SingleShot ==
    /\ last.op = StepTwo => last.out.handler.isNil
    /\ \A s \in SignerIds : signers[s].signed <= 1

\* C8, amended: an instance moves only forward, one phase at a time, and
\* step 2 returns no follow-on handler; the signer keeps no record of having
\* signed, so a challenge delivered to it again is answered as the first
\* was: with a signed response whenever it is well-formed and the
\* credentials resolve.
C8_TerminalNoHandler ==
    [][/\ \A s \in SignerIds :
            /\ Phase(signers'[s]) >= Phase(signers[s])
            /\ Phase(signers'[s]) <= Phase(signers[s]) + 1
       /\ \A s \in SignerIds :
            signers'[s].handled # signers[s].handled =>
                /\ last'.op = StepTwo /\ last'.signer = s
                /\ last'.out.handler.isNil
                /\ Phase(signers[s]) >= 1
                /\ Phase(signers'[s]) = 2
                /\ (/\ BeginsWithNonce(last'.req)
                    /\ last'.out.returned.err.isNil) =>
                        /\ ~last'.out.resp.isNil
                        /\ signers'[s].signed = signers[s].signed + 1
      ]_vars

\* One signer has produced two signed responses, each with a nil handler.
C8_Witness ==
    /\ last.op = StepTwo
    /\ signers[last.signer].signed = 2
    /\ ~last.out.resp.isNil
    /\ last.out.handler.isNil

\* C9, as claimed: the result of BuildSignedResponse has the field order
\* signature=<hex>,access_key=<accessKeyId>,amzdate=<timestamp>; with an empty
\* sessionToken it contains no ,session_token= at all, and with a non-empty
\* one it ends with ,session_token=<sessionToken> and contains exactly one.
C9_SessionTokenOptional ==
    last.op = "BuildSignedResponse" =>
        LET result == last.out.resp.bytes
            w == last.out.signedWith
            head == Str("signature=") \o <<result[11]>> \o Str(",access_key=")
                        \o w.accessKeyId \o Str(",amzdate=")
                        \o FormatAmzDate(last.out.t)
        IN  /\ Len(result) >= 11
            /\ IsHex(<<result[11]>>)
            /\ HasPrefix(result, head)
            /\ IF w.sessionToken = <<>>
               THEN Count(result, SessionTokenSegment) = 0
               ELSE /\ HasSuffix(result, SessionTokenSegment \o w.sessionToken)
                    /\ Count(result, SessionTokenSegment) = 1

\* C9, amended: the result of BuildSignedResponse is signature=<hex>, then
\* ,access_key=<accessKeyId>, then ,amzdate=<timestamp>, in that order; with
\* an empty sessionToken nothing follows, and with a non-empty one exactly
\* ,session_token=<sessionToken> follows, as the end of the result.  The
\* two inputs go in verbatim, so ,session_token= occurs in the result as
\* often as in accessKeyId and sessionToken, and once more when sessionToken
\* is not empty.
C9_ResponseFormat ==
    last.op = "BuildSignedResponse" =>
        LET result == last.out.resp.bytes
            w == last.out.signedWith
            head == Str("signature=") \o <<result[11]>> \o Str(",access_key=")
                        \o w.accessKeyId \o Str(",amzdate=")
                        \o FormatAmzDate(last.out.t)
            brought == Count(w.accessKeyId, SessionTokenSegment)
                           + Count(w.sessionToken, SessionTokenSegment)
        IN  /\ Len(result) >= 11
            /\ IsHex(<<result[11]>>)
            /\ IF w.sessionToken = <<>>
               THEN /\ result = head
                    /\ Count(result, SessionTokenSegment) = brought
               ELSE /\ result = head \o SessionTokenSegment \o w.sessionToken
                    /\ Count(result, SessionTokenSegment) = brought + 1

\* The engine was given a session token, and a key id that itself holds the
\* text of a session-token segment.
C9_Witness ==
    /\ last.op = "BuildSignedResponse"
    /\ last.out.signedWith.sessionToken = Str("Token-1")
    /\ last.out.signedWith.accessKeyId = Str("ID,session_token=x")
    /\ HasSuffix(last.out.resp.bytes, Str(",session_token=Token-1"))
    /\ Count(last.out.resp.bytes, SessionTokenSegment) = 2

CallbackAt(events) ==
    {i \in 1..Len(events) : events[i] = "credentialsCallback"}

\* C11: the credentials callback is invoked by step 2 alone, and there
\* lazily: a constructor, step 1 and Success never invoke it; a step-2 call
\* on a signer that has a callback invokes it exactly once when the challenge
\* is well-formed, after ExtractNonce has succeeded and before
\* BuildSignedResponse, and not at all when the challenge is malformed; and
\* what the call works with is what the callback returns at that moment: a
\* response it gives is signed with exactly those credentials.
C11_CallbackLazy ==
    [][/\ last'.op # StepTwo =>
            /\ last'.out.callbackCalls = 0
            /\ CallbackAt(last'.out.events) = {}
       /\ \A s \in SignerIds :
            signers'[s].handled # signers[s].handled =>
                LET out == last'.out
                    configured == signers[s].auth.credentialsCallback
                                      # NoCallback
                IN  /\ last'.op = StepTwo /\ last'.signer = s
                    /\ Cardinality(CallbackAt(out.events)) = out.callbackCalls
                    /\ IF configured /\ BeginsWithNonce(last'.req)
                       THEN /\ out.callbackCalls = 1
                            /\ out.nonceOk
                            /\ \A i \in CallbackAt(out.events) :
                                 /\ \E j \in 1..(i - 1) :
                                        out.events[j] = "ExtractNonce"
                                 /\ \A j \in 1..Len(out.events) :
                                        out.events[j] = "BuildSignedResponse"
                                            => j > i
                            /\ out.returned = provider
                            /\ out.resp.isNil = ~provider.err.isNil
                            /\ ~out.resp.isNil =>
                                 /\ out.engineCalls = 1
                                 /\ out.signedWith.accessKeyId
                                        = provider.creds.AccessKeyId
                                 /\ out.signedWith.secretAccessKey
                                        = provider.creds.SecretAccessKey
                                 /\ out.signedWith.sessionToken
                                        = provider.creds.SessionToken
                       ELSE /\ out.callbackCalls = 0
                            /\ out.returned = NotInvoked
      ]_vars

\* A signer with a callback was handed two well-formed challenges: it signed
\* the first, so the callback returned credentials then, and the second has
\* just failed on the callback's error, the callback having been invoked once
\* more, after the nonce was extracted, and nothing signed.
C11_Witness ==
    /\ last.op = StepTwo
    /\ LastSigner.credentialsCallback # NoCallback
    /\ signers[last.signer].handled = 2
    /\ signers[last.signer].signed = 1
    /\ BeginsWithNonce(last.req)
    /\ last.out.callbackCalls = 1
    /\ last.out.events = <<"ExtractNonce", "time.Now", "credentialsCallback">>
    /\ last.out.returned = FailedCredentials
    /\ last.out.resp.isNil

\* How often the text pat occurs in the text of a digest.
Mentions(text, pat) ==
    Cardinality({i \in 1..(Len(text) - Len(pat) + 1) :
                    SubSeq(text, i, i + Len(pat) - 1) = pat})

\* The instants a call may meet: the readings of the clock and the override.
Instants == {ClockInstants[i] : i \in 1..Len(ClockInstants)} \cup Overrides

\* Every string that a signed response derives from an instant is derived
\* from t.  The signature names what was hashed, so the strings are looked up
\* in it: the date stamp fed to the signing-key derivation, the timestamp
\* line and the scope of the string to sign, the credential and X-Amz-Date
\* parameters of the canonical request; then the amzdate field of the
\* response, whose date part is the date stamp; and no string of another
\* instant anywhere.
DerivedFrom(out, t) ==
    LET result == out.resp.bytes
        w == out.signedWith
        signature == result[11]
        stamp == Flat(toCredDateStamp(t))
        amzdate == Flat(FormatAmzDate(t))
        from == 10 + 1 + 12 + Len(w.accessKeyId) + 9
        field == SubSeq(result, from + 1, from + 24)
    IN  /\ Mentions(signature, "hmac(AWS4" \o Flat(w.secretAccessKey) \o ";"
                                   \o stamp \o ")") = 1
        /\ Mentions(signature, "AWS4-HMAC-SHA256\n" \o amzdate \o "\n" \o stamp
                                   \o "/" \o Flat(w.region)
                                   \o "/cassandra/aws4_request\n") = 1
        /\ Mentions(signature, "X-Amz-Credential=" \o Flat(w.accessKeyId)
                                   \o "%2F" \o stamp \o "%2F") = 1
        /\ Mentions(signature, "X-Amz-Date="
                                   \o Flat(QueryEscape(FormatAmzDate(t)))
                                   \o "&") = 1
        /\ SubSeq(result, from - 8, from) = Str(",amzdate=")
        /\ field = FormatAmzDate(t)
        /\ SelectSeq(SubSeq(field, 1, 10), LAMBDA c : c # "-")
               = toCredDateStamp(t)
        /\ \A u \in Instants \ {t} :
             /\ Mentions(signature, Flat(toCredDateStamp(u))) = 0
             /\ Mentions(signature, Flat(FormatAmzDate(u))) = 0
             /\ Mentions(signature, Flat(QueryEscape(FormatAmzDate(u)))) = 0
             /\ Count(result, FormatAmzDate(u)) = 0

\* C12: a step-2 call that gets past the nonce resolves one instant, the
\* clock override if the signer has one and otherwise what the clock reads
\* during that call, with one reading of the clock and none when the override
\* is set; step 1 and Success never read the clock, and the signer carries
\* the override only; and every string a signed response derives from an
\* instant is derived from that one, so the date stamp of the scope is the
\* date part of amzdate.
C12_SingleInstant ==
    [][/\ last'.op # StepTwo =>
            /\ last'.out.clockReads = 0
            /\ \A i \in 1..Len(last'.out.events) :
                   last'.out.events[i] # "time.Now"
       /\ \A s \in SignerIds :
            signers'[s].made =>
                signers'[s].auth.currentTime = signers'[s].origin.currentTime
       /\ \A s \in SignerIds :
            signers'[s].handled # signers[s].handled =>
                LET out == last'.out
                    override == signers[s].auth.currentTime
                    resolved == IF IsZero(override) THEN ClockInstants[clock]
                                ELSE override
                    reads == {i \in 1..Len(out.events) :
                                 out.events[i] = "time.Now"}
                IN  /\ last'.op = StepTwo /\ last'.signer = s
                    /\ Cardinality(reads) = out.clockReads
                    /\ out.clockReads <= 1
                    /\ out.nonceOk =>
                         /\ out.t = resolved
                         /\ out.clockReads = IF IsZero(override) THEN 1 ELSE 0
                    /\ ~out.resp.isNil => DerivedFrom(out, resolved)
      ]_vars

\* A signer without the override signed after the clock had moved on from
\* what it read when the configuration was built: the response carries the
\* later instant, read once.
C12_Witness ==
    /\ last.op = StepTwo
    /\ IsZero(LastSigner.currentTime)
    /\ clock = 2
    /\ last.out.t = LaterInstant
    /\ last.out.clockReads = 1
    /\ ~last.out.resp.isNil
    /\ DerivedFrom(last.out, LaterInstant)
    /\ HasSuffix(last.out.resp.bytes, Str(",amzdate=2021-12-31T23:59:59.999Z"))

=============================================================================
